---- MODULE Spec2Model ----
(***************************************************************************)
(* Model of pages/system_admin_pages.py of the beiwe backend: the          *)
(* device_settings request handler and unflatten_consent_sections, the     *)
(* transform from the flat form keys "prefix.label.content_type" to the    *)
(* nested mapping label -> content_type -> content.                        *)
(*                                                                         *)
(* Text is modelled as a sequence of tokens.  The token "." is the         *)
(* delimiter character; every other token is a piece of text without a     *)
(* delimiter, and no token other than "consent_section" is a beginning of  *)
(* that word.  "consent_sectionX.a.text" is                                *)
(* <<"consent_section", "X", ".", "a", ".", "text">>, and the empty string *)
(* is <<>>.                                                                *)
(***************************************************************************)
EXTENDS Integers, Sequences, FiniteSets, TLC

VARIABLES
  pc,                           \* position of the single thread of control
  consent_sections_dict,        \* argument of unflatten_consent_sections
  order,                        \* the order in which iteritems() yields its keys
  iter,                         \* number of entries the loop has consumed
  refactored_consent_sections,  \* the accumulator of unflatten_consent_sections
  stdout,                       \* lines the running call wrote to standard output
  result,                       \* outcome of the last call of unflatten_consent_sections
  stale,                        \* the accumulator of an earlier call held a label
                                \* that the input of the running call lacks
  source,                       \* the nested mapping and prefix the input was built from
  request,                      \* the request device_settings is serving
  readonly,                     \* local of device_settings
  params,                       \* local of device_settings
  values_read,                  \* request.values was read while serving the request
  settings,                     \* the study's DeviceSettings row
  response                      \* what the last request ended in

vars == <<pc, consent_sections_dict, order, iter, refactored_consent_sections,
          stdout, result, stale, source, request, readonly, params, values_read,
          settings, response>>

unflattenVars == <<consent_sections_dict, order, iter,
                   refactored_consent_sections, stdout, result, stale, source>>

handlerVars == <<request, readonly, params, values_read, settings, response>>

(***************************************************************************)
(* Bounds and input alphabets.                                             *)
(***************************************************************************)
MaxEntries == 2

Contents == {"1", "2"}

Dot == "."

CS == "consent_section"

\* str(a) + "." + str(b) ...
Join2(a, b) == a \o <<Dot>> \o b

Join3(a, b, c) == a \o <<Dot>> \o b \o <<Dot>> \o c

Join4(a, b, c, d) == a \o <<Dot>> \o b \o <<Dot>> \o c \o <<Dot>> \o d

\* Keys handed to unflatten_consent_sections directly.
FlatKeys ==
  { Join3(<<CS>>, <<"a">>, <<"text">>),
    Join3(<<CS>>, <<"a">>, <<"more">>),
    Join3(<<CS>>, <<"b">>, <<"text">>),
    Join3(<<CS, "X">>, <<"a">>, <<"text">>),
    Join3(<<CS>>, <<>>, <<"text">>),
    Join3(<<CS>>, <<"a">>, <<>>),
    Join3(<<>>, <<"a">>, <<"text">>),
    Join2(<<CS>>, <<"a">>),
    <<CS>>,
    Join4(<<CS>>, <<"a">>, <<"b">>, <<"text">>) }

(***************************************************************************)
(* Python values.                                                          *)
(***************************************************************************)
EmptyDict == [k \in {} |-> k]

\* d[k] = v on a dict
DictSet(d, k, v) == [x \in DOMAIN d \cup {k} |-> IF x = k THEN v ELSE d[x]]

\* The orders in which a dict with key set S can be iterated.
Orders(S) ==
  { o \in [1..Cardinality(S) -> S] : \A x \in S : \E j \in DOMAIN o : o[j] = x }

\* All dicts with at most n keys out of K and values out of V.
Dicts(K, V, n) ==
  UNION { [S -> V] : S \in { T \in SUBSET K : Cardinality(T) <= n } }

None == [kind |-> "none", value |-> EmptyDict]

Returned(v) == [kind |-> "return", value |-> v]

ValueError == [kind |-> "ValueError", value |-> EmptyDict]

(***************************************************************************)
(* str.split("."): the pieces between the delimiters; always at least one. *)
(***************************************************************************)
RECURSIVE Split(_)
Split(s) ==
  IF \A j \in DOMAIN s : s[j] # Dot
    THEN <<s>>
    ELSE LET d == CHOOSE j \in DOMAIN s :
                    /\ s[j] = Dot
                    /\ \A h \in 1..(j - 1) : s[h] # Dot
         IN  <<SubSeq(s, 1, d - 1)>> \o Split(SubSeq(s, d + 1, Len(s)))

\* str.startswith("consent_section")
StartsWithConsentSection(k) == Len(k) >= 1 /\ k[1] = CS

(***************************************************************************)
(* unflatten_consent_sections                                              *)
(***************************************************************************)
\* Variant: the accumulator outlives the call (a module-level or default-argument dict).
KeptAccumulator(old) == old

\* line 226: refactored_consent_sections = defaultdict(dict)
NewAccumulator(old) == EmptyDict

\* Variant: the first three pieces are taken and any further ones ignored.
UnpacksFirstThree(key) == Len(Split(key)) >= 3

\* Variant: empty pieces are refused as well.
UnpacksNonEmpty(key) ==
  Len(Split(key)) = 3 /\ \A j \in 1..3 : Split(key)[j] # <<>>

\* line 228: the three-way unpacking succeeds only for exactly three pieces
Unpacks(key) == Len(Split(key)) = 3

\* Variant: the inner dict of a label is replaced, not extended.
StoreReplacing(acc, label, content_type, content) ==
  [x \in DOMAIN acc \cup {label} |->
     IF x = label THEN [c \in {content_type} |-> content] ELSE acc[x]]

\* Variant: a pair already present keeps its first content (setdefault).
StoreFirstWins(acc, label, content_type, content) ==
  IF label \in DOMAIN acc /\ content_type \in DOMAIN acc[label]
    THEN acc
    ELSE [x \in DOMAIN acc \cup {label} |->
            IF x = label
              THEN [c \in (IF label \in DOMAIN acc THEN DOMAIN acc[label] ELSE {})
                             \cup {content_type} |->
                      IF c = content_type THEN content ELSE acc[label][c]]
              ELSE acc[x]]

\* Variant: label and content_type change places.
StoreSwapped(acc, label, content_type, content) ==
  [x \in DOMAIN acc \cup {content_type} |->
     IF x = content_type
       THEN [c \in (IF content_type \in DOMAIN acc THEN DOMAIN acc[content_type] ELSE {})
                      \cup {label} |->
               IF c = label THEN content ELSE acc[content_type][c]]
       ELSE acc[x]]

\* line 230: refactored_consent_sections[label][content_type] = content,
\* the defaultdict creating the inner dict of a label it has not seen
Store(acc, label, content_type, content) ==
  DictSet(acc, label,
          DictSet(IF label \in DOMAIN acc THEN acc[label] ELSE EmptyDict,
                  content_type, content))

\* line 229: print _, label, content_type
PrintLine(out, parts) == Append(out, parts)

\* lines 221-226: the call binds its argument and a fresh accumulator
Enter(d, o) ==
  /\ consent_sections_dict' = d
  /\ order' = o
  /\ iter' = 0
  /\ refactored_consent_sections' = NewAccumulator(refactored_consent_sections)
  /\ stdout' = <<>>
  /\ result' = None
  /\ stale' = \E l \in DOMAIN refactored_consent_sections :
                 \A k \in DOMAIN d : ~(Unpacks(k) /\ Split(k)[2] = l)
  /\ pc' = "l227"

\* lines 227-230: one turn of the loop; the unpacking raises ValueError
UnflattenIter ==
  /\ pc = "l227"
  /\ iter < Len(order)
  /\ LET key   == order[iter + 1]
         parts == Split(key)
     IN  IF Unpacks(key)
           THEN /\ stdout' = PrintLine(stdout, parts)
                /\ refactored_consent_sections' =
                     Store(refactored_consent_sections, parts[2], parts[3],
                           consent_sections_dict[key])
                /\ iter' = iter + 1
                /\ pc' = "l227"
                /\ UNCHANGED result
           ELSE /\ result' = ValueError
                /\ pc' = "raised"
                /\ UNCHANGED <<stdout, refactored_consent_sections, iter>>
  /\ UNCHANGED <<consent_sections_dict, order, stale, source>>
  /\ UNCHANGED handlerVars

\* line 231: return dict(refactored_consent_sections)
UnflattenReturn ==
  /\ pc = "l227"
  /\ iter = Len(order)
  /\ result' = Returned(refactored_consent_sections)
  /\ pc' = "returned"
  /\ UNCHANGED <<consent_sections_dict, order, iter,
                 refactored_consent_sections, stdout, stale, source>>
  /\ UNCHANGED handlerVars

(***************************************************************************)
(* The inverse direction: one flat entry prefix.label.content_type per     *)
(* (label, content_type, content) of a nested mapping.                     *)
(***************************************************************************)
NestedLabels == { <<"a">>, <<"a", Dot, "b">> }

NestedContentTypes == { <<"text">>, <<"more">>, <<"b", Dot, "text">> }

Prefixes == { <<CS>>, <<CS, Dot, "a">> }

\* number of (label, content_type, content) triples of a nested mapping
RECURSIVE Triples(_, _)
Triples(n, labels) ==
  IF labels = {} THEN 0
  ELSE LET l == CHOOSE x \in labels : TRUE
       IN  Cardinality(DOMAIN n[l]) + Triples(n, labels \ {l})

\* nested mappings of at most MaxEntries triples; a label may map to {}
NestedMaps ==
  LET Inner == Dicts(NestedContentTypes, Contents, MaxEntries)
  IN  { n \in UNION { [S -> Inner] : S \in SUBSET NestedLabels } :
          Triples(n, DOMAIN n) <= MaxEntries }

nested_to_flat(nested, prefix) ==
  LET Pairs == { <<l, c>> \in NestedLabels \X NestedContentTypes :
                   l \in DOMAIN nested /\ c \in DOMAIN nested[l] }
      Keys  == { Join3(prefix, lc[1], lc[2]) : lc \in Pairs }
  IN  [k \in Keys |->
         LET lc == CHOOSE x \in Pairs : Join3(prefix, x[1], x[2]) = k
         IN  nested[lc[1]][lc[2]]]

(***************************************************************************)
(* Direct calls of unflatten_consent_sections, one after the other.        *)
(***************************************************************************)
CallUnflatten ==
  /\ pc = "idle"
  /\ request = None
  /\ \E d \in Dicts(FlatKeys, Contents, MaxEntries) :
       \E o \in Orders(DOMAIN d) : Enter(d, o)
  /\ source' = None
  /\ UNCHANGED handlerVars

\* A call on the flat mapping built from a nested mapping and a prefix.
CallRoundTrip ==
  /\ pc = "idle"
  /\ request = None
  /\ \E n \in NestedMaps, p \in Prefixes :
       LET flat == nested_to_flat(n, p)
       IN  /\ \E o \in Orders(DOMAIN flat) : Enter(flat, o)
           /\ source' = [kind |-> "nested", value |-> n, prefix |-> p]
  /\ UNCHANGED handlerVars

\* the caller drops the outcome; the frame of the call is gone
Release ==
  /\ pc \in {"returned", "raised"}
  /\ request = None
  /\ pc' = "idle"
  /\ consent_sections_dict' = EmptyDict
  /\ order' = <<>>
  /\ iter' = 0
  /\ stdout' = <<>>
  /\ result' = None
  /\ stale' = FALSE
  /\ source' = None
  /\ UNCHANGED refactored_consent_sections
  /\ UNCHANGED handlerVars

(***************************************************************************)
(* device_settings                                                          *)
(***************************************************************************)
GPS == <<"gps">>

GPS_ON == <<"gps_on_duration_seconds">>

CONSENT_SECTIONS == <<CS, "s">>

\* config.constants (not part of the excerpt): one entry of each list
CHECKBOX_TOGGLES == {GPS}

TIMER_VALUES == {GPS_ON}

\* Keys a device_settings request may carry.
RequestKeys ==
  { GPS, GPS_ON,
    Join3(<<CS>>, <<"a">>, <<"text">>),
    Join3(<<CS>>, <<"a">>, <<"more">>),
    Join3(<<CS, "X">>, <<"a">>, <<"text">>),
    Join2(<<CS>>, <<"a">>),
    <<CS>>,
    CONSENT_SECTIONS }

Methods == {"GET", "POST"}

\* int() of a form string
ToInt(s) == IF s = "1" THEN 1 ELSE 2

\* libs.http_utils.checkbox_to_boolean: a box that was sent is on, any other is off
checkbox_to_boolean(toggles, p) ==
  [k \in DOMAIN p \cup toggles |-> IF k \in toggles THEN k \in DOMAIN p ELSE p[k]]

\* libs.http_utils.string_to_int: the timers that were sent become integers
string_to_int(timers, p) ==
  [k \in DOMAIN p |-> IF k \in timers THEN ToInt(p[k]) ELSE p[k]]

\* json.dumps: the text of a value, kept as the value it is the text of
JsonDumps(v) == [json |-> v]

\* line 210: the parameters that are no consent section
OtherParams(values) ==
  [k \in { x \in DOMAIN values : ~StartsWithConsentSection(x) } |-> values[k]]

\* Variant: only the keys that start with "consent_section." are selected.
ConsentSectionsDotted(values) ==
  [k \in { x \in DOMAIN values :
             StartsWithConsentSection(x) /\ Len(x) >= 2 /\ x[2] = Dot } |-> values[k]]

\* line 211: the parameters whose key starts with "consent_section"
ConsentSections(values) ==
  [k \in { x \in DOMAIN values : StartsWithConsentSection(x) } |-> values[k]]

\* line 217: settings.update(**params) writes every field named in params
Updated(row, p) ==
  [f \in DOMAIN row \cup DOMAIN p |-> IF f \in DOMAIN p THEN p[f] ELSE row[f]]

InitialSettings ==
  [f \in {GPS, GPS_ON, CONSENT_SECTIONS} |->
     IF f = GPS THEN FALSE
     ELSE IF f = GPS_ON THEN 0
     ELSE JsonDumps(EmptyDict)]

\* Variant: nobody is read-only.
ReadonlyNever(site_admin) == FALSE

\* line 193: readonly = not researcher_is_site_admin()
Readonly(site_admin) == ~site_admin

\* lines 189-193: a request that passed authenticate_researcher_study_access
\* enters the handler, which looks up the study and whether the caller is a
\* site admin
Request ==
  /\ pc = "idle"
  /\ \E m \in Methods, admin \in BOOLEAN,
        v \in Dicts(RequestKeys, Contents, MaxEntries) :
       /\ request' = [method |-> m, site_admin |-> admin, values |-> v]
       /\ readonly' = Readonly(admin)
  /\ values_read' = FALSE
  /\ params' = EmptyDict
  /\ response' = None
  /\ pc' = "l195"
  /\ UNCHANGED settings
  /\ UNCHANGED unflattenVars

\* lines 195-204: a GET renders the settings page
RenderGet ==
  /\ pc = "l195"
  /\ request.method = "GET"
  /\ response' = [kind |-> "render", value |-> settings]
  /\ pc' = "responded"
  /\ UNCHANGED <<request, readonly, params, values_read, settings>>
  /\ UNCHANGED unflattenVars

\* lines 206-207: abort(403)
Abort403 ==
  /\ pc = "l195"
  /\ request.method # "GET"
  /\ readonly
  /\ response' = [kind |-> "abort403", value |-> EmptyDict]
  /\ pc' = "responded"
  /\ UNCHANGED <<request, readonly, params, values_read, settings>>
  /\ UNCHANGED unflattenVars

\* lines 209-216, up to the call of unflatten_consent_sections
ReadParams ==
  /\ pc = "l195"
  /\ request.method # "GET"
  /\ ~readonly
  /\ values_read' = TRUE
  /\ params' = string_to_int(TIMER_VALUES,
                 checkbox_to_boolean(CHECKBOX_TOGGLES, OtherParams(request.values)))
  /\ LET consent_sections == ConsentSections(request.values)
     IN  \E o \in Orders(DOMAIN consent_sections) : Enter(consent_sections, o)
  /\ UNCHANGED <<source, request, readonly, settings, response>>

\* lines 216-218: the call returned; store, update, redirect
Update ==
  /\ pc = "returned"
  /\ request # None
  /\ params' = DictSet(params, CONSENT_SECTIONS, JsonDumps(result.value))
  /\ settings' = Updated(settings, params')
  /\ response' = [kind |-> "redirect", value |-> EmptyDict]
  /\ pc' = "responded"
  /\ UNCHANGED <<request, readonly, values_read>>
  /\ UNCHANGED unflattenVars

\* nothing in device_settings catches the ValueError of line 228
Unhandled ==
  /\ pc = "raised"
  /\ request # None
  /\ response' = [kind |-> "ValueError", value |-> EmptyDict]
  /\ pc' = "responded"
  /\ UNCHANGED <<request, readonly, params, values_read, settings>>
  /\ UNCHANGED unflattenVars

\* the request is over; its locals are gone
Finish ==
  /\ pc = "responded"
  /\ pc' = "idle"
  /\ request' = None
  /\ readonly' = FALSE
  /\ params' = EmptyDict
  /\ values_read' = FALSE
  /\ response' = None
  /\ consent_sections_dict' = EmptyDict
  /\ order' = <<>>
  /\ iter' = 0
  /\ stdout' = <<>>
  /\ result' = None
  /\ stale' = FALSE
  /\ UNCHANGED <<refactored_consent_sections, source, settings>>

Init ==
  /\ pc = "idle"
  /\ consent_sections_dict = EmptyDict
  /\ order = <<>>
  /\ iter = 0
  /\ refactored_consent_sections = EmptyDict
  /\ stdout = <<>>
  /\ result = None
  /\ stale = FALSE
  /\ source = None
  /\ request = None
  /\ readonly = FALSE
  /\ params = EmptyDict
  /\ values_read = FALSE
  /\ settings = InitialSettings
  /\ response = None

NextUnflatten ==
  \/ CallUnflatten
  \/ CallRoundTrip
  \/ UnflattenIter
  \/ UnflattenReturn
  \/ Release

SpecUnflatten == Init /\ [][NextUnflatten]_vars

Next ==
  \/ Request
  \/ RenderGet
  \/ Abort403
  \/ ReadParams
  \/ UnflattenIter
  \/ UnflattenReturn
  \/ Update
  \/ Unhandled
  \/ Finish

Spec == Init /\ [][Next]_vars

(***************************************************************************)
(* Vocabulary of the properties.                                           *)
(***************************************************************************)
PrefixOf(k) == Split(k)[1]

LabelOf(k) == Split(k)[2]

ContentTypeOf(k) == Split(k)[3]

DotCount(k) == Cardinality({ j \in DOMAIN k : k[j] = Dot })

ThreeSegments(k) == Len(Split(k)) = 3

WellFormed(d) == \A k \in DOMAIN d : ThreeSegments(k)

OnePrefix(d) == \A k1, k2 \in DOMAIN d : PrefixOf(k1) = PrefixOf(k2)

SamePair(k1, k2) ==
  LabelOf(k1) = LabelOf(k2) /\ ContentTypeOf(k1) = ContentTypeOf(k2)

NoSharedPair(d) == \A k1, k2 \in DOMAIN d : k1 # k2 => ~SamePair(k1, k2)

HasDot(s) == \E j \in DOMAIN s : s[j] = Dot

\* the keys the loop has consumed so far
Consumed == { order[j] : j \in 1..iter }

InCall == pc \in {"l227", "returned", "raised"}

\* what the loop builds from an empty accumulator out of the first n keys of o
RECURSIVE Grouped(_, _, _)
Grouped(d, o, n) ==
  IF n = 0 THEN EmptyDict
  ELSE Store(Grouped(d, o, n - 1), LabelOf(o[n]), ContentTypeOf(o[n]), d[o[n]])

(***************************************************************************)
(* C1: on a flat mapping whose keys all have three segments and one        *)
(* prefix, the call returns; the outer keys of the result are exactly the  *)
(* labels of the input, result[L][C] = v for every entry prefix.L.C -> v   *)
(* (entries of one label share one inner mapping), and no other pair is    *)
(* present.                                                                *)
(***************************************************************************)
C1_GroupsByLabel ==
  (InCall /\ WellFormed(consent_sections_dict) /\ OnePrefix(consent_sections_dict))
    => /\ pc # "raised"
       /\ pc = "returned" =>
            LET d == consent_sections_dict
                r == result.value
            IN  /\ result.kind = "return"
                /\ DOMAIN r = { LabelOf(k) : k \in DOMAIN d }
                /\ \A k \in DOMAIN d :
                     /\ ContentTypeOf(k) \in DOMAIN r[LabelOf(k)]
                     /\ r[LabelOf(k)][ContentTypeOf(k)] = d[k]
                /\ \A l \in DOMAIN r : \A c \in DOMAIN r[l] :
                     \E k \in DOMAIN d : LabelOf(k) = l /\ ContentTypeOf(k) = c

C1_Witness ==
  /\ pc = "returned"
  /\ WellFormed(consent_sections_dict)
  /\ OnePrefix(consent_sections_dict)
  /\ \E k1, k2 \in DOMAIN consent_sections_dict :
       LabelOf(k1) = LabelOf(k2) /\ ContentTypeOf(k1) # ContentTypeOf(k2)
  /\ \E l \in DOMAIN result.value : Cardinality(DOMAIN result.value[l]) = 2

(***************************************************************************)
(* C2: a flat mapping with a key that does not split into exactly three    *)
(* segments never yields a result: the loop cannot get past that key, the  *)
(* call cannot return, and where it stops it stops in the error, wherever  *)
(* the key comes in the iteration and whatever else the mapping holds.     *)
(***************************************************************************)
C2_MalformedKeyRaises ==
  (InCall /\ ~WellFormed(consent_sections_dict))
    => /\ pc # "returned"
       /\ result.kind # "return"
       /\ \A k \in Consumed : ThreeSegments(k)
       /\ iter < Len(order)
       /\ pc = "raised" => (result = ValueError /\ ~ThreeSegments(order[iter + 1]))

C2_Witness ==
  /\ pc = "raised"
  /\ result = ValueError
  /\ iter >= 1
  /\ refactored_consent_sections # EmptyDict

(***************************************************************************)
(* C3 as claimed: the call on nested_to_flat(nested, p) returns nested,    *)
(* for every nested mapping and every prefix.                              *)
(***************************************************************************)
C3_RoundTripEvery ==
  (pc \in {"returned", "raised"} /\ source # None)
    => result = Returned(source.value)

\* a nested mapping the flat form can carry: every label has an entry, and
\* neither the prefix nor a label nor a content type holds the delimiter
Flattenable(n, p) ==
  /\ ~HasDot(p)
  /\ \A l \in DOMAIN n :
       /\ ~HasDot(l)
       /\ DOMAIN n[l] # {}
       /\ \A c \in DOMAIN n[l] : ~HasDot(c)

(***************************************************************************)
(* C3, amended: the call on nested_to_flat(nested, p) returns nested when  *)
(* every label of nested has at least one content type and neither p nor   *)
(* a label nor a content type contains the delimiter.                      *)
(***************************************************************************)
C3_RoundTrip ==
  (InCall /\ source # None /\ Flattenable(source.value, source.prefix))
    => /\ pc # "raised"
       /\ pc = "returned" => result = Returned(source.value)

C3_Witness ==
  /\ pc = "returned"
  /\ source # None
  /\ Flattenable(source.value, source.prefix)
  /\ \E l \in DOMAIN source.value : Cardinality(DOMAIN source.value[l]) = 2
  /\ result = Returned(source.value)

(***************************************************************************)
(* C4 as claimed: every key the loop accepts has two delimiters and three  *)
(* non-empty segments.                                                     *)
(***************************************************************************)
C4_AcceptsOnlyNonEmptySegments ==
  \A k \in Consumed :
    /\ DotCount(k) = 2
    /\ ThreeSegments(k)
    /\ \A j \in 1..3 : Split(k)[j] # <<>>

(***************************************************************************)
(* C4, amended: every key the loop accepts has exactly two delimiters and  *)
(* three segments, each of which may be empty; such a key is grouped under *)
(* its label and content type, the empty ones included, and the error is   *)
(* raised only at a key that does not have exactly two delimiters.         *)
(***************************************************************************)
C4_AcceptsExactlyThreeSegments ==
  /\ \A k \in Consumed :
       /\ DotCount(k) = 2
       /\ ThreeSegments(k)
       /\ LabelOf(k) \in DOMAIN refactored_consent_sections
       /\ ContentTypeOf(k) \in DOMAIN refactored_consent_sections[LabelOf(k)]
  /\ pc = "raised" => DotCount(order[iter + 1]) # 2

C4_Witness ==
  /\ pc = "returned"
  /\ \E k \in Consumed : LabelOf(k) = <<>>
  /\ \E k \in Consumed : ContentTypeOf(k) = <<>> \/ PrefixOf(k) = <<>>
  /\ <<>> \in DOMAIN result.value

(***************************************************************************)
(* C5: of the consumed entries that map to one (label, content_type) pair  *)
(* the accumulator holds the content of the one consumed last, and an      *)
(* error is raised only at a key that does not have three segments.        *)
(***************************************************************************)
C5_LastWriteWins ==
  /\ \A j \in 1..iter :
       LET k    == order[j]
           last == CHOOSE h \in j..iter :
                     /\ SamePair(order[h], k)
                     /\ \A g \in (h + 1)..iter : ~SamePair(order[g], k)
       IN  /\ LabelOf(k) \in DOMAIN refactored_consent_sections
           /\ ContentTypeOf(k) \in DOMAIN refactored_consent_sections[LabelOf(k)]
           /\ refactored_consent_sections[LabelOf(k)][ContentTypeOf(k)]
                = consent_sections_dict[order[last]]
  /\ pc = "raised" => ~ThreeSegments(order[iter + 1])
  /\ pc = "returned" => result.value = refactored_consent_sections

C5_Witness ==
  /\ pc = "returned"
  /\ Len(order) = 2
  /\ order[1] # order[2]
  /\ SamePair(order[1], order[2])
  /\ consent_sections_dict[order[1]] # consent_sections_dict[order[2]]
  /\ result.value[LabelOf(order[2])][ContentTypeOf(order[2])]
       = consent_sections_dict[order[2]]

(***************************************************************************)
(* C6 as claimed: no step of a call writes to standard output, changes     *)
(* the input mapping or changes any state outside the call.                *)
(***************************************************************************)
C6_NoSideEffect ==
  [][pc = "l227" =>
       /\ stdout' = stdout
       /\ consent_sections_dict' = consent_sections_dict
       /\ handlerVars' = handlerVars]_vars

(***************************************************************************)
(* C7: whatever calls came before, the accumulator of a call holds what    *)
(* the loop builds from nothing out of the entries this call has consumed, *)
(* and the value returned is that of the whole input: a call on the same   *)
(* input returns the same value, and nothing of an earlier call is in it.  *)
(***************************************************************************)
C7_NoStateSurvives ==
  InCall =>
    /\ refactored_consent_sections = Grouped(consent_sections_dict, order, iter)
    /\ pc = "returned" =>
         result = Returned(Grouped(consent_sections_dict, order, Len(order)))

C7_Witness ==
  /\ pc = "returned"
  /\ stale
  /\ result.value # EmptyDict

(***************************************************************************)
(* C8 as claimed: the value returned for the consent sections of a request *)
(* whose keys all have three segments is the same for every order of       *)
(* iteration.                                                              *)
(***************************************************************************)
C8_AnyOrderSameResult ==
  (pc = "returned" /\ request # None /\ WellFormed(consent_sections_dict))
    => \A o \in Orders(DOMAIN consent_sections_dict) :
         Grouped(consent_sections_dict, o, Len(o)) = result.value

(***************************************************************************)
(* C8, amended: the value returned is the same for every order of          *)
(* iteration when no two of the keys have the same label and content type  *)
(* (as when all keys have the same first segment); of keys with different  *)
(* first segments and the same label and content type, the one iterated    *)
(* last decides.                                                           *)
(***************************************************************************)
C8_OrderIrrelevantWithoutSharedPair ==
  (pc = "returned" /\ request # None /\ WellFormed(consent_sections_dict))
    => /\ \A k \in DOMAIN consent_sections_dict : StartsWithConsentSection(k)
       /\ consent_sections_dict = ConsentSections(request.values)
       /\ NoSharedPair(consent_sections_dict) =>
            \A o \in Orders(DOMAIN consent_sections_dict) :
              Grouped(consent_sections_dict, o, Len(o)) = result.value
       /\ \A k \in DOMAIN consent_sections_dict :
            \E h \in DOMAIN order :
              /\ SamePair(order[h], k)
              /\ \A g \in (h + 1)..Len(order) : ~SamePair(order[g], k)
              /\ result.value[LabelOf(k)][ContentTypeOf(k)]
                   = consent_sections_dict[order[h]]

C8_Witness ==
  /\ pc = "returned"
  /\ request # None
  /\ Len(order) = 2
  /\ PrefixOf(order[1]) # PrefixOf(order[2])
  /\ WellFormed(consent_sections_dict)
  /\ NoSharedPair(consent_sections_dict)

\* a key that starts with "consent_section" and has not three segments
HasMalformedConsentKey(values) ==
  \E k \in DOMAIN values : StartsWithConsentSection(k) /\ ~ThreeSegments(k)

C10_OnlySiteAdminPostUpdates ==
  [][/\ settings' # settings =>
          (request # None /\ request.method = "POST" /\ request.site_admin)
     /\ (request # None /\ pc' # "idle"
           /\ (request.method = "GET" \/ ~request.site_admin)) =>
          (~values_read' /\ settings' = settings /\ pc' = "responded")
     /\ (pc = "l195" /\ request.method = "POST" /\ ~request.site_admin) =>
          response'.kind = "abort403"]_vars

C10_Witness ==
  /\ pc = "responded"
  /\ response.kind = "abort403"
  /\ request.method = "POST"
  /\ ~request.site_admin
  /\ ~values_read
  /\ HasMalformedConsentKey(request.values)
  /\ settings # InitialSettings

====
